---- MODULE Spec2Model ----
(***************************************************************************)
(* Model of pychess_svg.py: the colour resolver, the theme stylesheet      *)
(* scanner and fragment cache, and the board renderer.                     *)
(*                                                                         *)
(* Text is modelled as sequences of one-character strings, so that find,   *)
(* slicing, upper-casing and hex parsing are computed, not assumed.        *)
(* Fractions (opacities) are pairs num/den.  Pixel positions that the code *)
(* computes with half squares are kept in half-pixel units (suffix 2).     *)
(***************************************************************************)
EXTENDS Integers, Sequences, FiniteSets, TLC

VARIABLES
    c_in, c_out,                       \* _color: argument and returned pair
    css_file, lineno, acc, path_map, emits,   \* one stylesheet scan
    fs_css, fs_assets,                 \* files on disk (theme stylesheet, assets)
    SVG_PIECES, SVG_PATH_PIECES,       \* the two process-wide caches
    pc, frame, outcome,                \* per execution context: position, locals, last result
    populated, runs,                   \* history: ids whose population completed; sequences started
    call, doc                          \* one board() call: its arguments and what it returned

vars == <<c_in, c_out, css_file, lineno, acc, path_map, emits, fs_css, fs_assets,
          SVG_PIECES, SVG_PATH_PIECES, pc, frame, outcome, populated, runs, call, doc>>

colorVars == <<c_in, c_out>>
scanVars  == <<css_file, lineno, acc, path_map, emits>>
themeVars == <<fs_css, fs_assets, SVG_PIECES, SVG_PATH_PIECES, pc, frame, outcome, populated, runs>>
boardVars == <<call, doc>>

----------------------------------------------------------------------------
(* Python text primitives *)

Min(a, b) == IF a < b THEN a ELSE b
Max(a, b) == IF a > b THEN a ELSE b

\* s[a:b] with Python's treatment of negative and out-of-range indices
\* (0-based, end exclusive).
PySlice(s, a, b) ==
    LET n  == Len(s)
        lo == IF a < 0 THEN Max(n + a, 0) ELSE Min(a, n)
        hi == IF b < 0 THEN Max(n + b, 0) ELSE Min(b, n)
    IN  IF lo >= hi THEN <<>> ELSE SubSeq(s, lo + 1, hi)

\* s.find(sub): 0-based index of the first occurrence, -1 when absent.
PyFind(s, sub) ==
    LET hits == {i \in 0..(Len(s) - Len(sub)) : SubSeq(s, i + 1, i + Len(sub)) = sub}
    IN  IF hits = {} THEN -1 ELSE CHOOSE i \in hits : \A j \in hits : i <= j

\* sub in s
PyIn(sub, s) == PyFind(s, sub) # -1

Whitespace == {" ", "\n", "\t"}

RECURSIVE LStrip(_)
LStrip(s) == IF s # <<>> /\ Head(s) \in Whitespace THEN LStrip(Tail(s)) ELSE s

RECURSIVE RStrip(_)
RStrip(s) == IF s # <<>> /\ s[Len(s)] \in Whitespace THEN RStrip(SubSeq(s, 1, Len(s) - 1)) ELSE s

\* s.strip()
PyStrip(s) == RStrip(LStrip(s))

Lower == <<"a","b","c","d","e","f","g","h","i","j","k","l","m",
           "n","o","p","q","r","s","t","u","v","w","x","y","z">>
Upper == <<"A","B","C","D","E","F","G","H","I","J","K","L","M",
           "N","O","P","Q","R","S","T","U","V","W","X","Y","Z">>

\* c.upper() for one character
PyUpper(c) ==
    IF \E i \in 1..26 : Lower[i] = c
    THEN Upper[CHOOSE i \in 1..26 : Lower[i] = c]
    ELSE c

HexDigits == <<"0","1","2","3","4","5","6","7","8","9","a","b","c","d","e","f">>
HexUpper  == <<"0","1","2","3","4","5","6","7","8","9","A","B","C","D","E","F">>

IsHexChar(c) == \E i \in 1..16 : HexDigits[i] = c \/ HexUpper[i] = c
HexVal(c) == (CHOOSE i \in 1..16 : HexDigits[i] = c \/ HexUpper[i] = c) - 1

\* The digit part of int(text, 16): hex digits, single underscores allowed
\* only between two digits.  -1 stands for the ValueError.
RECURSIVE DigitsValue(_, _, _)
DigitsValue(s, accum, lastWasDigit) ==
    IF s = <<>> THEN (IF lastWasDigit THEN accum ELSE -1)
    ELSE IF IsHexChar(Head(s)) THEN DigitsValue(Tail(s), accum * 16 + HexVal(Head(s)), TRUE)
    ELSE IF Head(s) = "_" /\ lastWasDigit /\ Tail(s) # <<>> /\ IsHexChar(Head(Tail(s)))
         THEN DigitsValue(Tail(s), accum, FALSE)
    ELSE -1

\* int(text, 16): surrounding whitespace is dropped, one sign is accepted,
\* then an optional 0x prefix, then the digits.  ok = FALSE is the ValueError.
PyInt16(text) ==
    LET s    == PyStrip(text)
        neg  == s # <<>> /\ Head(s) = "-"
        body == IF s # <<>> /\ Head(s) \in {"-", "+"} THEN Tail(s) ELSE s
        pref == Len(body) >= 2 /\ body[1] = "0" /\ body[2] \in {"x", "X"}
        digs == IF pref
                THEN (IF Len(body) >= 3 /\ body[3] = "_" THEN SubSeq(body, 4, Len(body))
                                                         ELSE SubSeq(body, 3, Len(body)))
                ELSE body
        v    == DigitsValue(digs, 0, FALSE)
    IN  [ok |-> v >= 0, val |-> IF neg THEN 0 - v ELSE v]

----------------------------------------------------------------------------
(* Colour resolver *)

Frac(n, d) == [num |-> n, den |-> d]
One == Frac(1, 1)

_color(color) ==
    LET hash == color # <<>> /\ Head(color) = "#"
        d1   == PyInt16(PySlice(color, 4, 5))
        d2   == PyInt16(PySlice(color, 7, 9))
    IN  IF hash /\ Len(color) = 5 /\ d1.ok
        THEN [color |-> PySlice(color, 0, 4), opacity |-> Frac(d1.val, 15)]
        ELSE IF hash /\ Len(color) = 9 /\ d2.ok
        THEN [color |-> PySlice(color, 0, 7), opacity |-> Frac(d2.val, 255)]
        ELSE [color |-> color, opacity |-> One]

----------------------------------------------------------------------------
(* Theme stylesheet scanner: get_svg_pieces_from_css *)

S_piece_dot == <<"p","i","e","c","e",".">>
S_dash_piece == <<"-","p","i","e","c","e">>
S_white == <<"w","h","i","t","e">>
S_ally == <<"a","l","l","y">>
S_promoted == <<"p","r","o","m","o","t","e","d">>
S_url == <<"u","r","l">>
S_url_paren == <<"u","r","l","(">>
S_close == <<")">>
S_svg == <<"s","v","g">>

EmptyMap == [k \in {} |-> <<>>]
MapPut(m, k, v) == [x \in (DOMAIN m) \cup {k} |-> IF x = k THEN v ELSE m[x]]

\* color, symbol, url = "", "", "" and promoted = False
EmptyAcc == [color |-> "", symbol |-> <<>>, url |-> <<>>, promoted |-> FALSE]

\* The key stored for a rule: last letter upper-cased for white, "p" in front
\* for a promoted piece.
EmitKey(color, symbol, promoted) ==
    LET cased == IF color = "white"
                 THEN SubSeq(symbol, 1, Len(symbol) - 1) \o <<PyUpper(symbol[Len(symbol)])>>
                 ELSE symbol
    IN  IF promoted THEN <<"p">> \o cased ELSE cased

\* The reset with promoted left out of it.
AfterEmit_KeepsPromoted(a) == [EmptyAcc EXCEPT !.promoted = a.promoted]

\* The accumulator once an entry has been stored.
AfterEmit(a) == EmptyAcc

\* line[line.find("piece.") + 6 : line.find("-piece")]
SymbolOf(line) == PySlice(line, PyFind(line, S_piece_dot) + 6, PyFind(line, S_dash_piece))

\* line[line.find("url(") + 5 : line.find(")") - 1]
UrlOf(line) == PySlice(line, PyFind(line, S_url_paren) + 5, PyFind(line, S_close) - 1)

\* "white" if ("white" in line or "ally" in line) else "black"
ColorOf(line) == IF PyIn(S_white, line) \/ PyIn(S_ally, line) THEN "white" ELSE "black"

\* The body of the loop over the stylesheet's lines, for one line:
\* the accumulator after it and the entry it stored, if any.
ScanLine(a, line) ==
    IF PyStrip(line) = <<>> THEN [acc |-> a, emit |-> <<>>]
    ELSE
    LET hasPiece == PyIn(S_piece_dot, line)
        color1   == IF hasPiece THEN ColorOf(line) ELSE a.color
        symbol1  == IF hasPiece THEN SymbolOf(line) ELSE a.symbol
        prom1    == IF hasPiece /\ PyIn(S_promoted, line) THEN TRUE ELSE a.promoted
        url1     == IF PyIn(S_url, line) THEN UrlOf(line) ELSE a.url
        a1       == [color |-> color1, symbol |-> symbol1, url |-> url1, promoted |-> prom1]
    IN  IF symbol1 # <<>> /\ url1 # <<>>
        THEN [acc |-> AfterEmit(a1), emit |-> <<[key |-> EmitKey(color1, symbol1, prom1), url |-> url1]>>]
        ELSE [acc |-> a1, emit |-> <<>>]

\* Lines a stylesheet is made of.
L_white_k == <<"p","i","e","c","e",".","k","-","p","i","e","c","e",".","w","h","i","t","e"," ","{","\n">>
L_black_k == <<"p","i","e","c","e",".","k","-","p","i","e","c","e",".","b","l","a","c","k"," ","{","\n">>
L_prom_black_r == <<".","p","r","o","m","o","t","e","d"," ","p","i","e","c","e",".","r","-","p","i","e","c","e",".","b","l","a","c","k"," ","{","\n">>
L_prom_ally_r == <<".","p","r","o","m","o","t","e","d"," ","p","i","e","c","e",".","r","-","p","i","e","c","e",".","a","l","l","y"," ","{","\n">>
L_url_w == <<" ","u","r","l","(","'","w",".","s","v","g","'",")",";","\n">>
L_url_b == <<" ","u","r","l","(","'","b",".","p","n","g","'",")",";","\n">>
L_blank == <<" ","\n">>
L_brace == <<"}","\n">>
L_inline_q == <<"p","i","e","c","e",".","q","-","p","i","e","c","e",".","w","h","i","t","e"," ","{","u","r","l","(","'","q",".","s","v","g","'",")","}","\n">>
L_no_symbol == <<"p","i","e","c","e",".","-","p","i","e","c","e",".","b","l","a","c","k"," ","{","\n">>

CssLines == {L_no_symbol, L_white_k, L_black_k, L_prom_black_r, L_prom_ally_r, L_url_w, L_url_b, L_blank, L_brace, L_inline_q}

----------------------------------------------------------------------------
(* Optional values: None is the empty tuple, a present value v is <<v>>. *)

Some(v) == <<v>>
IsNone(o) == o = <<>>
Val(o) == o[1]

----------------------------------------------------------------------------
(* Squares and pixel geometry *)

SQUARE_SIZE == 45

\* ord(c) for the characters squares are written with
Ord(c) ==
    IF \E i \in 1..26 : Lower[i] = c THEN 96 + (CHOOSE i \in 1..26 : Lower[i] = c)
    ELSE IF \E i \in 1..26 : Upper[i] = c THEN 64 + (CHOOSE i \in 1..26 : Upper[i] = c)
    ELSE 48 + HexVal(c)

\* int(text) of a run of decimal digits
RECURSIVE PyInt10(_, _)
PyInt10(s, accum) == IF s = <<>> THEN accum ELSE PyInt10(Tail(s), accum * 10 + HexVal(Head(s)))

square_file(square) == Ord(square[1]) - 97

square_rank(square) == PyInt10(Tail(square), 0) - 1

\* (board.rows - square_rank(square) - 1, square_file(square))
GridCell(rows, square) == <<rows - square_rank(square) - 1, square_file(square)>>

\* parse_squares, as the set of its entries
parse_squares(rows, squares) == {GridCell(rows, squares[i]) : i \in 1..Len(squares)}

inner_border(borders, coordinates) == IF borders /\ coordinates THEN 1 ELSE 0
outer_border(borders) == IF borders THEN 1 ELSE 0
margin(coordinates) == IF coordinates THEN 15 ELSE 0

\* Pixel origin of the grid cell drawn at (x_index, y_index): squares and pieces.
CellX(x_index, coordinates) == x_index * SQUARE_SIZE + (IF coordinates THEN margin(coordinates) ELSE 0)
CellY(y_index, coordinates) == y_index * SQUARE_SIZE + (IF coordinates THEN margin(coordinates) ELSE 0)

\* The cell of the board shown at grid position (x_index, y_index).
display_row(rows, y_index, orientation) == IF orientation THEN y_index ELSE rows - y_index - 1
display_col(cols, x_index, orientation) == IF orientation THEN x_index ELSE cols - x_index - 1

\* Arrow anchor of a square, in half pixels (the code adds 0.5 and subtracts
\* from cols - 0.5, rows - 0.5).
ArrowOffset(coordinates, borders) ==
    outer_border(borders) + (IF coordinates THEN margin(coordinates) ELSE 0) + inner_border(borders, coordinates)

\* The mirrored file taken as cols - 1 - file, without the half square.
ArrowX2_NoHalfSquare(file, cols, orientation, coordinates, borders) ==
    2 * ArrowOffset(coordinates, borders)
      + (IF orientation THEN 2 * file + 1 ELSE 2 * (cols - 1 - file)) * SQUARE_SIZE

ArrowX2(file, cols, orientation, coordinates, borders) ==
    2 * ArrowOffset(coordinates, borders)
      + (IF orientation THEN 2 * file + 1 ELSE (2 * cols - 1) - 2 * file) * SQUARE_SIZE

ArrowY2(rank, rows, orientation, coordinates, borders) ==
    2 * ArrowOffset(coordinates, borders)
      + (IF orientation THEN (2 * rows - 1) - 2 * rank ELSE 2 * rank + 1) * SQUARE_SIZE

----------------------------------------------------------------------------
(* Default palette and slot lookup *)

DEFAULT_COLORS ==
    [slot \in {"square light", "square dark", "square dark lastmove", "square light lastmove",
               "margin", "inner border", "outer border", "coord",
               "arrow green", "arrow red", "arrow yellow", "arrow blue"} |->
        CASE slot = "square light"          -> <<"#","f","0","d","9","b","5">>
          [] slot = "square dark"           -> <<"#","b","5","8","8","6","3">>
          [] slot = "square dark lastmove"  -> <<"#","a","a","a","2","3","b">>
          [] slot = "square light lastmove" -> <<"#","c","d","d","1","6","a">>
          [] slot = "margin"                -> <<"#","2","1","2","1","2","1">>
          [] slot = "inner border"          -> <<"#","1","1","1">>
          [] slot = "outer border"          -> <<"#","1","1","1">>
          [] slot = "coord"                 -> <<"#","3","3","3","3","3","3">>
          [] slot = "arrow green"           -> <<"#","1","5","7","8","1","B","8","0">>
          [] slot = "arrow red"             -> <<"#","8","8","2","0","2","0","8","0">>
          [] slot = "arrow yellow"          -> <<"#","e","6","8","f","0","0","b","3">>
          [] slot = "arrow blue"            -> <<"#","0","0","3","0","8","8","8","0">>]

\* " ".join(["arrow", color])
ArrowSlot(color) ==
    CASE color = "green"  -> "arrow green"
      [] color = "red"    -> "arrow red"
      [] color = "yellow" -> "arrow yellow"
      [] color = "blue"   -> "arrow blue"
      [] OTHER            -> "arrow other"

\* colors.get(color, DEFAULT_COLORS[color]) then _color: the attribute lookup
\* on colors comes first, then the default is evaluated, then the lookup.
_select_color(colors, slot) ==
    IF IsNone(colors) THEN [raised |-> "AttributeError", color |-> <<>>, opacity |-> One]
    ELSE IF slot \notin DOMAIN DEFAULT_COLORS THEN [raised |-> "KeyError", color |-> <<>>, opacity |-> One]
    ELSE LET lit == IF slot \in DOMAIN Val(colors) THEN Val(colors)[slot] ELSE DEFAULT_COLORS[slot]
             r   == _color(lit)
         IN  [raised |-> "", color |-> r.color, opacity |-> r.opacity]

----------------------------------------------------------------------------
(* The output document *)

El(tag, cls, x, y, info) == [tag |-> tag, cls |-> cls, x |-> x, y |-> y, info |-> info]

RECURSIVE Flatten(_)
Flatten(ss) == IF ss = <<>> THEN <<>> ELSE Head(ss) \o Flatten(Tail(ss))

\* Element.insert(index, child): list insertion, past the end it appends.
PyInsert(children, index, child) ==
    LET k == Min(index, Len(children))
    IN  SubSeq(children, 1, k) \o <<child>> \o SubSeq(children, k + 1, Len(children))

\* _svg: the root's viewBox and its optional width and height attributes.
_svg(viewbox_x, viewbox_y, width, height) ==
    [viewBox |-> Some(<<viewbox_x, viewbox_y>>), width |-> width, height |-> height]

PyLower(c) ==
    IF \E i \in 1..26 : Upper[i] = c
    THEN Lower[CHOOSE i \in 1..26 : Upper[i] = c]
    ELSE c

LowerAll(s) == [i \in 1..Len(s) |-> PyLower(s[i])]

EndsWith(s, suffix) == Len(s) >= Len(suffix) /\ SubSeq(s, Len(s) - Len(suffix) + 1, Len(s)) = suffix

\* os.path.splitext(name)[1]: from the last dot on (names here have no directory part).
SplitExt(name) ==
    LET dots == {i \in 2..Len(name) : name[i] = "."}
    IN  IF dots = {} THEN <<>>
        ELSE SubSeq(name, CHOOSE i \in dots : \A j \in dots : j <= i, Len(name))

Mime(ext) ==
    IF ext = <<".","j","p","g">> \/ ext = <<".","j","p","e","g">> THEN "image/jpeg"
    ELSE IF ext = <<".","p","n","g">> THEN "image/png"
    ELSE "application/octet-stream"

\* float(text.replace('px', '')) of an attribute value n<unit>: fails on other units.
FloatOk(attr) == attr.unit \in {"", "px"}

\* The background step.  env is the file found under the name: whether it
\* opens, whether it parses, its root tag and the root's attributes.
\* Gives the children after the step, the local names width and height
\* after it (the vector branch assigns them) and whether it failed.
Background(children, name, env, rows, cols, coordinates, width, height) ==
    LET m  == margin(coordinates)
        bw == cols * SQUARE_SIZE
        bh == rows * SQUARE_SIZE
        failed(w, h) == [children |-> children, width |-> w, height |-> h, failed |-> TRUE]
    IN
    IF EndsWith(LowerAll(name), <<".","s","v","g">>)
    THEN IF ~env.exists \/ ~env.parses THEN failed(width, height)
         ELSE IF EndsWith(env.root, S_svg)
         THEN LET w == IF IsNone(env.width) THEN <<>> ELSE Some(Val(env.width).n)
                  h == IF IsNone(env.height) THEN <<>> ELSE Some(Val(env.height).n)
                  sized == ~IsNone(env.width) /\ ~IsNone(env.height)
                  boxed == ~sized /\ ~IsNone(env.viewBox)
                  short == boxed /\ Len(Val(env.viewBox)) < 4
                  width_val  == IF sized
                                THEN (IF FloatOk(Val(env.width)) /\ FloatOk(Val(env.height))
                                      THEN Val(env.width).n ELSE bw)
                                ELSE IF boxed /\ ~short THEN Val(env.viewBox)[3] ELSE bw
                  height_val == IF sized
                                THEN (IF FloatOk(Val(env.width)) /\ FloatOk(Val(env.height))
                                      THEN Val(env.height).n ELSE bh)
                                ELSE IF boxed /\ ~short THEN Val(env.viewBox)[4] ELSE bh
              IN  IF short \/ width_val = 0 \/ height_val = 0 THEN failed(w, h)
                  ELSE [children |-> PyInsert(children, 1,
                                        El("g", "background", m, m,
                                           <<Frac(bw, width_val), Frac(bh, height_val)>>)),
                        width |-> w, height |-> h, failed |-> FALSE]
         ELSE [children |-> PyInsert(children, 1, El("g", "background", 0, 0, <<>>)),
               width |-> width, height |-> height, failed |-> FALSE]
    ELSE IF ~env.exists THEN failed(width, height)
         ELSE [children |-> Append(children, El("image", Mime(LowerAll(SplitExt(name))), m, m, <<bw, bh>>)),
               width |-> width, height |-> height, failed |-> FALSE]

\* render_squares after the background step (the assignment that follows
\* both branches' try blocks).
RenderSquares(background_image, bgFailed) == IsNone(background_image)

\* Square rectangles and highlight glyphs of one grid cell.
SquareCell(a, orientation, y_index, x_index) ==
    LET dr  == display_row(a.rows, y_index, orientation)
        dc  == display_col(a.cols, x_index, orientation)
        x   == CellX(x_index, a.coordinates)
        y   == CellY(y_index, a.coordinates)
        lm  == ~IsNone(a.lastmove)
                 /\ <<dr, dc>> \in {GridCell(a.rows, Val(a.lastmove).from_square),
                                    GridCell(a.rows, Val(a.lastmove).to_square)}
        cls == IF dc % 2 = dr % 2
               THEN (IF lm THEN "square light lastmove" ELSE "square light")
               ELSE (IF lm THEN "square dark lastmove" ELSE "square dark")
    IN  <<El("rect", cls, x, y, DEFAULT_COLORS[cls])>>
          \o (IF a.squares # <<>> /\ <<dr, dc>> \in parse_squares(a.rows, a.squares)
              THEN <<El("use", "xx", x, y, <<>>)>> ELSE <<>>)

\* Check halo and piece reference of one grid cell.
PieceCell(a, orientation, y_index, x_index) ==
    LET dr == display_row(a.rows, y_index, orientation)
        dc == display_col(a.cols, x_index, orientation)
        x  == CellX(x_index, a.coordinates)
        y  == CellY(y_index, a.coordinates)
    IN  IF <<dr, dc>> \in DOMAIN a.pieces
        THEN (IF ~IsNone(a.check) /\ GridCell(a.rows, Val(a.check)) = <<dr, dc>>
              THEN <<El("rect", "check", x, y, <<>>)>> ELSE <<>>)
             \o <<El("use", "piece", x, y, <<a.pieces[<<dr, dc>>].color, a.pieces[<<dr, dc>>].symbol>>)>>
        ELSE <<>>

\* Both loops run over the grid row by row.
SquareCells(a, orientation) ==
    Flatten([i \in 1..(a.rows * a.cols) |->
                SquareCell(a, orientation, (i - 1) \div a.cols, (i - 1) % a.cols)])

PieceCells(a, orientation) ==
    Flatten([i \in 1..(a.rows * a.cols) |->
                PieceCell(a, orientation, (i - 1) \div a.cols, (i - 1) % a.cols)])

\* Coordinate labels: two per file, then two per rank.
CoordLabels(a, orientation) ==
    LET m         == margin(a.coordinates)
        font_size == (m * 9) \div 10
        offset    == (font_size * 65) \div 100
        files == [i \in 1..a.cols |->
                    LET index == IF orientation THEN i - 1 ELSE a.cols - (i - 1) - 1
                        x     == (i - 1) * SQUARE_SIZE + m + SQUARE_SIZE \div 2
                    IN  <<El("text", "file", x, offset, <<index>>),
                          El("text", "file", x, m + a.rows * SQUARE_SIZE + offset, <<index>>)>>]
        ranks == [i \in 1..a.rows |->
                    LET index == IF orientation THEN i - 1 ELSE a.rows - (i - 1) - 1
                        y     == (i - 1) * SQUARE_SIZE + m + SQUARE_SIZE \div 2
                    IN  <<El("text", "rank", offset, y, <<index>>),
                          El("text", "rank", m + a.cols * SQUARE_SIZE + offset, y, <<index>>)>>]
    IN  Flatten(files) \o Flatten(ranks)

\* The element(s) of one arrow once its colour is looked up: a circle, or a
\* line and a polygon.  x, y are the tail anchor (the centre, for a circle)
\* and info holds the head anchor, in half pixels, the stroke literal (empty
\* when the slot was not resolved), the slot's colour name and the opacity.
ArrowEls(a, orientation, arrow, color, sel) ==
    LET tf == square_file(arrow.tail)
        tr == square_rank(arrow.tail)
        hf == square_file(arrow.head)
        hr == square_rank(arrow.head)
        xtail == ArrowX2(tf, a.cols, orientation, a.coordinates, a.borders)
        ytail == ArrowY2(tr, a.rows, orientation, a.coordinates, a.borders)
        xhead == ArrowX2(hf, a.cols, orientation, a.coordinates, a.borders)
        yhead == ArrowY2(hr, a.rows, orientation, a.coordinates, a.borders)
        info  == [head |-> <<xhead, yhead>>, stroke |-> sel.color, slot |-> color,
                  opacity |-> sel.opacity]
    IN  IF sel.raised = "AttributeError" THEN [raised |-> "AttributeError", els |-> <<>>]
        ELSE IF <<hf, hr>> = <<tf, tr>>
        THEN [raised |-> "", els |-> <<El("circle", "circle", xhead, yhead, info)>>]
        ELSE [raised |-> "", els |-> <<El("line", "arrow", xtail, ytail, info),
                                       El("polygon", "arrow", xhead, yhead, info)>>]

\* The colour of an arrow: its own, green when it is a plain pair.
ArrowColor(arrow) == IF IsNone(arrow.color) THEN "green" ELSE Val(arrow.color)

\* One arrow: the colour lookup, then its elements.
Arrow(a, orientation, arrow) ==
    ArrowEls(a, orientation, arrow, ArrowColor(arrow),
             _select_color(a.colors, ArrowSlot(ArrowColor(arrow))))

\* The arrows are drawn in order; the first failing lookup ends the call.
JoinArrows(first, rest) ==
    IF first.raised # "" THEN first
    ELSE IF rest.raised # "" THEN rest
    ELSE [raised |-> "", els |-> first.els \o rest.els]

RECURSIVE Arrows(_, _, _)
Arrows(a, orientation, arrows) ==
    IF arrows = <<>> THEN [raised |-> "", els |-> <<>>]
    ELSE JoinArrows(Arrow(a, orientation, Head(arrows)), Arrows(a, orientation, Tail(arrows)))

Raised(exc) == [raised |-> exc, viewBox |-> <<>>, width |-> <<>>, height |-> <<>>,
                children |-> <<>>, render_squares |-> FALSE]

\* board(css, board, ...): cache is SVG_PIECES looked up under css (None when
\* the id is not a key), a the remaining arguments with the files they name.
board(cache, a) ==
    LET orientation == a.orientation # a.flipped
        root  == _svg(a.cols * SQUARE_SIZE, a.rows * SQUARE_SIZE, a.width, a.height)
        style == IF ~IsNone(a.colors) /\ DOMAIN Val(a.colors) # {}
                 THEN <<El("style", "", 0, 0, <<>>)>> ELSE <<>>
        defs  == El("defs", "", 0, 0,
                    [symbols |-> IF IsNone(cache) THEN {} ELSE DOMAIN Val(cache),
                     xx      |-> a.squares # <<>>,
                     check_gradient |-> ~IsNone(a.check)])
        bg    == IF IsNone(a.background_image)
                 THEN [children |-> style \o <<defs>>, width |-> a.width, height |-> a.height,
                       failed |-> FALSE]
                 ELSE Background(style \o <<defs>>, Val(a.background_image), a.bgfile,
                                 a.rows, a.cols, a.coordinates, a.width, a.height)
        render_squares == RenderSquares(a.background_image, bg.failed)
        total_width  == a.cols * SQUARE_SIZE + 2 * margin(a.coordinates)
        total_height == a.rows * SQUARE_SIZE + 2 * margin(a.coordinates)
        attrs == IF a.coordinates
                 THEN [viewBox |-> Some(<<total_width, total_height>>),
                       width   |-> IF ~IsNone(bg.width) THEN Some(total_width) ELSE root.width,
                       height  |-> IF ~IsNone(bg.height) THEN Some(total_height) ELSE root.height]
                 ELSE root
        squares == IF render_squares THEN SquareCells(a, orientation) ELSE <<>>
        labels  == IF a.coordinates THEN CoordLabels(a, orientation) ELSE <<>>
        pieces  == PieceCells(a, orientation)
        arrows  == Arrows(a, orientation, a.arrows)
    IN  IF IsNone(cache) THEN Raised("KeyError")
        ELSE IF \E s \in DOMAIN Val(cache) : Val(cache)[s].empty THEN Raised("ParseError")
        ELSE IF arrows.raised # "" THEN Raised(arrows.raised)
        ELSE [raised |-> "", viewBox |-> attrs.viewBox, width |-> attrs.width, height |-> attrs.height,
              children |-> bg.children \o squares \o labels \o pieces \o arrows.els,
              render_squares |-> render_squares]

----------------------------------------------------------------------------
(* Theme cache: get_svg_pieces_from_css, read_piece_svg *)

Contexts == {"c1", "c2"}
Themes == {"std"}

MaxRuns == 2

U_w == <<"w",".","s","v","g">>
U_b == <<"b",".","p","n","g">>
U_q == <<"q",".","s","v","g">>

\* A piece asset on disk: whether the file is there, how its root states a
\* width ("absent", "percent" or "number", then w), and its viewBox width.
AssetMissing == [exists |-> FALSE, width |-> "absent",  w |-> 0,  viewBox |-> <<>>]
AssetBoxed   == [exists |-> TRUE,  width |-> "number",  w |-> 90, viewBox |-> <<45>>]
AssetSized   == [exists |-> TRUE,  width |-> "number",  w |-> 90, viewBox |-> <<>>]
AssetPercent == [exists |-> TRUE,  width |-> "percent", w |-> 0,  viewBox |-> <<>>]
AssetBare    == [exists |-> TRUE,  width |-> "absent",  w |-> 0,  viewBox |-> <<>>]

AssetKinds == {AssetMissing, AssetBoxed, AssetSized, AssetPercent, AssetBare}

Sheet_two == <<L_white_k, L_url_w, L_prom_black_r, L_url_b>>
Sheet_one == <<L_inline_q>>

ThemeSheets == {<<>>, Some(Sheet_two), Some(Sheet_one)}

WhiteK == [symbol |-> <<"K">>, color |-> "white"]
BlackPR == [symbol |-> <<"p","r">>, color |-> "black"]
BlackN == [symbol |-> <<"n">>, color |-> "black"]
Pieces == {WhiteK, BlackPR, BlackN}

EmptyFragment == [empty |-> TRUE, id |-> <<>>, scale |-> One]
Fragment(color, piece_name, scale) == [empty |-> FALSE, id |-> <<color, piece_name>>, scale |-> scale]

CacheOf(m, css) == IF css \in DOMAIN m THEN Some(m[css]) ELSE <<>>

\* svgutils.compose.SVG(orig_file): fails with AttributeError on a root
\* without width/height (the case the handler around it reports).
ComposeRaises(asset) == asset.width = "absent"

\* read_piece_svg(css, piece): what it raised, if anything, and SVG_PIECES after it.
read_piece_svg(pieces, paths, assets, css, piece) ==
    LET symbol == piece.symbol
        ret(exc, p) == [raised |-> exc, pieces |-> p]
    IN  IF css \notin DOMAIN paths THEN ret("KeyError", pieces)
        ELSE IF symbol \notin DOMAIN paths[css] THEN ret("", pieces)
        ELSE LET piece_svg == paths[css][symbol]
                 asset     == assets[piece_svg]
             IN  IF ~asset.exists THEN ret("", pieces)
                 ELSE IF PySlice(piece_svg, -3, Len(piece_svg)) # S_svg THEN ret("", pieces)
                 ELSE IF ComposeRaises(asset) THEN ret("AttributeError", pieces)
                 ELSE IF asset.viewBox = <<>> /\ asset.width = "percent"
                      THEN ret("", [pieces EXCEPT ![css] = MapPut(@, symbol, EmptyFragment)])
                 ELSE LET width == IF asset.viewBox # <<>> THEN asset.viewBox[1] ELSE asset.w
                          scale == IF width # SQUARE_SIZE THEN Frac(SQUARE_SIZE, width) ELSE One
                      IN  ret("", [pieces EXCEPT ![css] =
                                      MapPut(@, symbol, Fragment(piece.color, symbol, scale))])

\* The two assignments that open get_svg_pieces_from_css.
ResetCache(m, css) == MapPut(m, css, EmptyMap)

NoOutcome == [ctx |-> "", op |-> "", raised |-> "", cached |-> FALSE, partial |-> FALSE]
IdleFrame == [css |-> "", acc |-> EmptyAcc, pos |-> 0, further |-> FALSE]

Populating(t) == pc[t] # "idle"

\* lines 43-48: both caches are reset, then the stylesheet is looked for
get_svg_enter(t) ==
    \E css \in Themes :
        /\ pc[t] = "idle"
        /\ runs[css] < MaxRuns
        /\ SVG_PIECES' = ResetCache(SVG_PIECES, css)
        /\ SVG_PATH_PIECES' = ResetCache(SVG_PATH_PIECES, css)
        /\ runs' = [runs EXCEPT ![css] = @ + 1]
        /\ frame' = [frame EXCEPT ![t] =
                        [css |-> css, acc |-> EmptyAcc, pos |-> 0,
                         further |-> css \in populated /\ css \in DOMAIN SVG_PIECES
                                       /\ DOMAIN SVG_PIECES[css] # {}]]
        /\ IF IsNone(fs_css[css])
           THEN /\ pc' = pc
                /\ populated' = populated \cup {css}
                /\ outcome' = [ctx |-> t, op |-> "get_svg_pieces_from_css", raised |-> "",
                               cached |-> TRUE, partial |-> FALSE]
           ELSE /\ pc' = [pc EXCEPT ![t] = "scan"]
                /\ UNCHANGED <<populated, outcome>>
        /\ UNCHANGED <<fs_css, fs_assets, colorVars, scanVars, boardVars>>

\* one pass of the loop over the stylesheet's lines
get_svg_line(t) ==
    /\ pc[t] = "scan"
    /\ frame[t].pos < Len(Val(fs_css[frame[t].css]))
    /\ LET css == frame[t].css
           r   == ScanLine(frame[t].acc, Val(fs_css[css])[frame[t].pos + 1])
       IN  /\ frame' = [frame EXCEPT ![t].acc = r.acc, ![t].pos = @ + 1]
           /\ SVG_PATH_PIECES' =
                IF r.emit = <<>> THEN SVG_PATH_PIECES
                ELSE [SVG_PATH_PIECES EXCEPT ![css] = MapPut(@, r.emit[1].key, r.emit[1].url)]
    /\ UNCHANGED <<pc, SVG_PIECES, populated, runs, outcome, fs_css, fs_assets,
                   colorVars, scanVars, boardVars>>

\* the loop is over: the function returns
get_svg_return(t) ==
    /\ pc[t] = "scan"
    /\ frame[t].pos = Len(Val(fs_css[frame[t].css]))
    /\ pc' = [pc EXCEPT ![t] = "idle"]
    /\ populated' = populated \cup {frame[t].css}
    /\ outcome' = [ctx |-> t, op |-> "get_svg_pieces_from_css", raised |-> "",
                   cached |-> TRUE, partial |-> FALSE]
    /\ UNCHANGED <<frame, SVG_PIECES, SVG_PATH_PIECES, runs, fs_css, fs_assets,
                   colorVars, scanVars, boardVars>>

call_read_piece_svg(t) ==
    \E css \in Themes, piece \in Pieces :
        /\ pc[t] = "idle"
        /\ LET r == read_piece_svg(SVG_PIECES, SVG_PATH_PIECES, fs_assets, css, piece)
           IN  /\ SVG_PIECES' = r.pieces
               /\ outcome' = [ctx |-> t, op |-> "read_piece_svg", raised |-> r.raised,
                              cached |-> css \in DOMAIN SVG_PATH_PIECES,
                              partial |-> \E u \in Contexts \ {t} : Populating(u)]
        /\ UNCHANGED <<pc, frame, SVG_PATH_PIECES, populated, runs, fs_css, fs_assets,
                       colorVars, scanVars, boardVars>>

call_board(t) ==
    \E css \in Themes :
        /\ pc[t] = "idle"
        /\ LET a == [rows |-> 2, cols |-> 2,
                     pieces |-> [c \in {<<0, 0>>, <<1, 1>>} |-> IF c = <<0, 0>> THEN BlackPR ELSE WhiteK],
                     orientation |-> TRUE, flipped |-> FALSE, check |-> <<>>, lastmove |-> <<>>,
                     arrows |-> <<>>, squares |-> <<>>, width |-> <<>>, height |-> <<>>,
                     colors |-> <<>>, coordinates |-> FALSE, borders |-> FALSE,
                     background_image |-> <<>>, bgfile |-> <<>>]
               r == board(CacheOf(SVG_PIECES, css), a)
           IN  outcome' = [ctx |-> t, op |-> "board", raised |-> r.raised,
                           cached |-> css \in DOMAIN SVG_PIECES,
                           partial |-> \E u \in Contexts \ {t} : Populating(u)]
        /\ UNCHANGED <<pc, frame, SVG_PIECES, SVG_PATH_PIECES, populated, runs, fs_css, fs_assets,
                       colorVars, scanVars, boardVars>>

----------------------------------------------------------------------------
(* Initial values of the parts a specification does not exercise *)

ColorIdle == c_in = <<>> /\ c_out = <<>>

ScanIdle == css_file = <<>> /\ lineno = 0 /\ acc = EmptyAcc /\ path_map = EmptyMap /\ emits = <<>>

ThemeIdle ==
    /\ fs_css = [css \in Themes |-> <<>>]
    /\ fs_assets = [u \in {U_w, U_b, U_q} |-> AssetMissing]
    /\ SVG_PIECES = EmptyMap
    /\ SVG_PATH_PIECES = EmptyMap
    /\ pc = [t \in Contexts |-> "idle"]
    /\ frame = [t \in Contexts |-> IdleFrame]
    /\ outcome = NoOutcome
    /\ populated = {}
    /\ runs = [css \in Themes |-> 0]

BoardIdle == call = <<>> /\ doc = <<>>

----------------------------------------------------------------------------
(* Specification of the colour resolver *)

MaxTail == 2

TailChars == {"0", "d", "F", "g", "-", "+", " ", "_", "x"}

ColorPrefixes == {<<>>, <<"#">>, <<"#","a","b","c">>, <<"#","a","a","b","b","c","c">>,
                  <<"r","e","d">>, <<"n","o","t","a","h","e","x">>,
                  <<"#","a","a","b","b","c","c","d">>}

ColorLiterals ==
    {p \o t : p \in ColorPrefixes, t \in UNION {[1..n -> TailChars] : n \in 0..MaxTail}}

ColorInit == c_in \in ColorLiterals /\ c_out = <<>> /\ ScanIdle /\ ThemeIdle /\ BoardIdle

ColorCall ==
    /\ c_out = <<>>
    /\ c_out' = Some(_color(c_in))
    /\ UNCHANGED <<c_in, scanVars, themeVars, boardVars>>

ColorNext == ColorCall

SpecColor == ColorInit /\ [][ColorNext]_vars

\* C5: _color follows the hex-alpha rule on every literal: "#" + 4 characters
\* ending in a hex digit d gives (first 4 characters, d/15); "#" + 8
\* characters ending in two hex digits hh gives (first 7 characters, hh/255);
\* every other literal gives (the literal, 1.0); the opacity lies in [0, 1].
C5_HexAlphaRule ==
    c_out # <<>> =>
        LET r    == Val(c_out)
            n    == Len(c_in)
            hash == n > 0 /\ c_in[1] = "#"
        IN  /\ IF hash /\ n = 5 /\ IsHexChar(c_in[5])
               THEN r = [color |-> SubSeq(c_in, 1, 4), opacity |-> Frac(HexVal(c_in[5]), 15)]
               ELSE IF hash /\ n = 9 /\ IsHexChar(c_in[8]) /\ IsHexChar(c_in[9])
               THEN r = [color |-> SubSeq(c_in, 1, 7),
                         opacity |-> Frac(16 * HexVal(c_in[8]) + HexVal(c_in[9]), 255)]
               ELSE r = [color |-> c_in, opacity |-> One]
            /\ 0 <= r.opacity.num /\ r.opacity.num <= r.opacity.den

----------------------------------------------------------------------------
(* Specification of one stylesheet scan *)

MaxLines == 4

Stylesheets == UNION {[1..n -> CssLines] : n \in 0..MaxLines}

ScanInit ==
    /\ css_file \in Stylesheets
    /\ lineno = 0 /\ acc = EmptyAcc /\ path_map = EmptyMap /\ emits = <<>>
    /\ ColorIdle /\ ThemeIdle /\ BoardIdle

\* the loop body on the next line; emits records where entries were stored
ScanStep ==
    /\ lineno < Len(css_file)
    /\ LET r == ScanLine(acc, css_file[lineno + 1])
       IN  /\ acc' = r.acc
           /\ path_map' = IF r.emit = <<>> THEN path_map
                          ELSE MapPut(path_map, r.emit[1].key, r.emit[1].url)
           /\ emits' = IF r.emit = <<>> THEN emits
                       ELSE Append(emits, [at |-> lineno + 1, key |-> r.emit[1].key,
                                           url |-> r.emit[1].url])
    /\ lineno' = lineno + 1
    /\ UNCHANGED <<css_file, colorVars, themeVars, boardVars>>

ScanNext == ScanStep

SpecScan == ScanInit /\ [][ScanNext]_vars

RuleLine(line) == PyStrip(line) # <<>> /\ PyIn(S_piece_dot, line)
UrlLine(line)  == PyStrip(line) # <<>> /\ PyIn(S_url, line)

MaxOf(S) == CHOOSE i \in S : \A j \in S : j <= i

\* The line of the last entry stored before line j (0 when there is none).
EmitBefore(j) ==
    LET E == {emits[i].at : i \in 1..Len(emits)} \cap (0..(j - 1))
    IN  IF E = {} THEN 0 ELSE MaxOf(E)

\* The rule lines and url lines read since the last stored entry, up to line j.
RulesIn(j) == {k \in (EmitBefore(j) + 1)..j : RuleLine(css_file[k])}
UrlsIn(j)  == {k \in (EmitBefore(j) + 1)..j : UrlLine(css_file[k])}

SymbolSetAt(j) == RulesIn(j) # {} /\ SymbolOf(css_file[MaxOf(RulesIn(j))]) # <<>>
UrlSetAt(j)    == UrlsIn(j) # {} /\ UrlOf(css_file[MaxOf(UrlsIn(j))]) # <<>>

UpperLast(s) == SubSeq(s, 1, Len(s) - 1) \o <<PyUpper(s[Len(s)])>>

ExpectedKey(j) ==
    LET rule == css_file[MaxOf(RulesIn(j))]
        base == IF ColorOf(rule) = "white" THEN UpperLast(SymbolOf(rule)) ELSE SymbolOf(rule)
    IN  IF \E k \in RulesIn(j) : PyIn(S_promoted, css_file[k]) THEN <<"p">> \o base ELSE base

\* Two well-formed rules, one per side, one of them promoted: two pairs of a
\* rule line and a url line (either order inside a pair), other lines ignored.
TwoRules(sheet) ==
    LET body == SelectSeq(sheet, LAMBDA l : RuleLine(l) \/ UrlLine(l))
        ruleOnly(l) == RuleLine(l) /\ ~UrlLine(l) /\ SymbolOf(l) # <<>>
        urlOnly(l)  == UrlLine(l) /\ ~RuleLine(l) /\ UrlOf(l) # <<>>
        pair(a, b)  == (ruleOnly(a) /\ urlOnly(b)) \/ (ruleOnly(b) /\ urlOnly(a))
        rule(a, b) == IF RuleLine(a) THEN a ELSE b
    IN  /\ Len(body) = 4
        /\ pair(body[1], body[2]) /\ pair(body[3], body[4])
        /\ ColorOf(rule(body[1], body[2])) # ColorOf(rule(body[3], body[4]))
        /\ PyIn(S_promoted, rule(body[1], body[2])) # PyIn(S_promoted, rule(body[3], body[4]))

\* C6: an entry is stored exactly at the lines where, since the last stored
\* entry, both a symbol and a url have been read (in either order); its key
\* is the symbol with the last character upper-cased iff the rule is white
\* and "p" in front iff a rule line since the last entry was promoted; the
\* accumulator is reset after it; two well-formed rules give two entries.
C6_ScanEmits ==
    /\ \A j \in 1..lineno :
          (\E i \in 1..Len(emits) : emits[i].at = j) <=> (SymbolSetAt(j) /\ UrlSetAt(j))
    /\ \A i \in 1..Len(emits) :
          /\ emits[i].key = ExpectedKey(emits[i].at)
          /\ emits[i].url = UrlOf(css_file[MaxOf(UrlsIn(emits[i].at))])
          /\ emits[i].key \in DOMAIN path_map
    /\ (emits # <<>> /\ emits[Len(emits)].at = lineno) => acc = EmptyAcc
    /\ ~(acc.symbol # <<>> /\ acc.url # <<>>)
    /\ DOMAIN path_map = {emits[i].key : i \in 1..Len(emits)}
    /\ (lineno = Len(css_file) /\ TwoRules(css_file)) =>
          (Len(emits) = 2 /\ Cardinality(DOMAIN path_map) = 2)

\* A scan of two well-formed rules has ended, the second rule's url line
\* having come before its rule line, and the promoted one is stored under "p".
C6_Witness ==
    /\ lineno = Len(css_file) /\ TwoRules(css_file)
    /\ Len(emits) = 2
    /\ UrlLine(css_file[emits[2].at - 1]) /\ RuleLine(css_file[emits[2].at])
    /\ \E i \in 1..2 : emits[i].key[1] = "p"
    /\ \E i \in 1..2 : emits[i].key = <<"K">>

----------------------------------------------------------------------------
(* Specification of the theme cache used from several execution contexts *)

ThemeInit ==
    /\ fs_css \in [Themes -> ThemeSheets]
    /\ \E kw \in AssetKinds, kb \in {AssetMissing, AssetSized} :
          fs_assets = [u \in {U_w, U_b, U_q} |->
                          IF u = U_w THEN kw ELSE IF u = U_b THEN kb ELSE AssetBoxed]
    /\ SVG_PIECES = EmptyMap
    /\ SVG_PATH_PIECES = EmptyMap
    /\ pc = [t \in Contexts |-> "idle"]
    /\ frame = [t \in Contexts |-> IdleFrame]
    /\ outcome = NoOutcome
    /\ populated = {}
    /\ runs = [css \in Themes |-> 0]
    /\ ColorIdle /\ ScanIdle /\ BoardIdle

ThemeNext ==
    \E t \in Contexts :
        \/ get_svg_enter(t)
        \/ get_svg_line(t)
        \/ get_svg_return(t)
        \/ call_read_piece_svg(t)
        \/ call_board(t)

SpecTheme == ThemeInit /\ [][ThemeNext]_vars

GetSvgStep(t) == get_svg_enter(t) \/ get_svg_line(t) \/ get_svg_return(t)

\* C2: once a theme id has been populated and fragments are cached for it,
\* a further call of get_svg_pieces_from_css for that id changes neither
\* SVG_PATH_PIECES nor SVG_PIECES.
C2_PopulateIdempotent ==
    [][\A t \in Contexts :
          (GetSvgStep(t) /\ frame'[t].further)
              => (SVG_PIECES' = SVG_PIECES /\ SVG_PATH_PIECES' = SVG_PATH_PIECES)]_vars

\* C4: on a populated theme neither read_piece_svg nor board raises, whatever
\* is missing from the theme's assets (no other context being at work).
C4_MissingNeverRaises ==
    (outcome.op \in {"read_piece_svg", "board"} /\ outcome.cached /\ ~outcome.partial)
        => outcome.raised = ""

\* C7: no two contexts run a populate-and-cache sequence for the same id at
\* once, and no context reads the caches of an id while another context is
\* still populating it.
C7_GuardedPopulation ==
    /\ \A t, u \in Contexts :
          (t # u /\ Populating(t) /\ Populating(u)) => frame[t].css # frame[u].css
    /\ ~(outcome.op \in {"read_piece_svg", "board"} /\ outcome.cached /\ outcome.partial)

----------------------------------------------------------------------------
(* Specification of one board() call *)

MaxRows == 2
MaxCols == 3

\* The name of the square in file f, rank r (both from 1).
Sq(f, r) == <<Lower[f], HexDigits[r + 1]>>

BoardSquares(rows, cols) == {Sq(f, r) : f \in 1..cols, r \in 1..rows}

\* board.piece_at: a black promoted rook in the top left cell, a white king
\* in the bottom right one.
PiecesOn(rows, cols) ==
    [c \in {<<0, 0>>, <<rows - 1, cols - 1>>} |-> IF c = <<0, 0>> THEN BlackPR ELSE WhiteK]

NoMarks == [check |-> <<>>, lastmove |-> <<>>, squares |-> <<>>]
Marked(rows) ==
    [check |-> Some(Sq(1, rows)),
     lastmove |-> Some([from_square |-> Sq(1, 1), to_square |-> Sq(1, 2)]),
     squares |-> <<Sq(2, 1)>>]

PlainArrow(tail, head) == [tail |-> tail, head |-> head, color |-> <<>>]
ColorArrow(tail, head, color) == [tail |-> tail, head |-> head, color |-> Some(color)]

TwoArrows == <<ColorArrow(Sq(1, 1), Sq(2, 2), "purple"), PlainArrow(Sq(2, 1), Sq(1, 2))>>

ArrowLists(rows, cols) ==
    {<<>>, TwoArrows}
      \cup {<<PlainArrow(s, s)>> : s \in BoardSquares(rows, cols)}
      \cup {<<ColorArrow(s, Sq(1, 1), "red")>> : s \in BoardSquares(rows, cols)}

ColorSchemes ==
    {<<>>, Some(EmptyMap),
     Some([slot \in {"square light", "arrow red"} |->
              IF slot = "arrow red" THEN <<"#","f","0","0","8">> ELSE <<"#","f","f","f">>])}

N_svg == <<"b",".","s","v","g">>
N_SVG == <<"B",".","S","V","G">>
N_png == <<"b",".","p","n","g">>
N_jpg == <<"b",".","J","P","G">>
N_gif == <<"b",".","g","i","f">>

Attr(n, unit) == Some([n |-> n, unit |-> unit])

BgNone      == [exists |-> FALSE, parses |-> FALSE, root |-> <<>>, width |-> <<>>, height |-> <<>>, viewBox |-> <<>>]
BgRaster    == [exists |-> TRUE,  parses |-> FALSE, root |-> <<>>, width |-> <<>>, height |-> <<>>, viewBox |-> <<>>]
BgMalformed == BgRaster
BgSized     == [exists |-> TRUE, parses |-> TRUE, root |-> S_svg, width |-> Attr(90, "px"), height |-> Attr(180, ""), viewBox |-> <<>>]
BgPercent   == [exists |-> TRUE, parses |-> TRUE, root |-> S_svg, width |-> Attr(100, "%"), height |-> Attr(100, "%"), viewBox |-> <<>>]
BgZero      == [exists |-> TRUE, parses |-> TRUE, root |-> S_svg, width |-> Attr(0, ""), height |-> Attr(90, ""), viewBox |-> <<>>]
BgBoxed     == [exists |-> TRUE, parses |-> TRUE, root |-> S_svg, width |-> <<>>, height |-> <<>>, viewBox |-> Some(<<0, 0, 90, 180>>)]
BgWideBoxed == [exists |-> TRUE, parses |-> TRUE, root |-> S_svg, width |-> Attr(90, ""), height |-> <<>>, viewBox |-> Some(<<0, 0, 90, 180>>)]
BgShortBox  == [exists |-> TRUE, parses |-> TRUE, root |-> S_svg, width |-> <<>>, height |-> <<>>, viewBox |-> Some(<<0, 0>>)]
BgPlain     == [exists |-> TRUE, parses |-> TRUE, root |-> S_svg, width |-> <<>>, height |-> <<>>, viewBox |-> <<>>]
BgGroup     == [exists |-> TRUE, parses |-> TRUE, root |-> <<"g">>, width |-> <<>>, height |-> <<>>, viewBox |-> <<>>]

\* background_image with the file found under that name
Backgrounds ==
    {<<<<>>, BgNone>>}
      \cup {<<Some(N_svg), f>> : f \in {BgNone, BgMalformed, BgSized, BgPercent, BgZero, BgBoxed,
                                        BgWideBoxed, BgShortBox, BgPlain, BgGroup}}
      \cup {<<Some(N_SVG), BgBoxed>>, <<Some(N_png), BgNone>>, <<Some(N_png), BgRaster>>,
            <<Some(N_jpg), BgRaster>>, <<Some(N_gif), BgRaster>>}

Sizes == {<<>>, Some(400)}

\* A populated theme with the white king's fragment cached.
ReadyTheme == [css \in Themes |-> [s \in {WhiteK.symbol} |-> Fragment("white", WhiteK.symbol, One)]]

BoardInit ==
    /\ call = <<>> /\ doc = <<>>
    /\ fs_css = [css \in Themes |-> <<>>]
    /\ fs_assets = [u \in {U_w, U_b, U_q} |-> AssetMissing]
    /\ SVG_PIECES = ReadyTheme
    /\ SVG_PATH_PIECES = [css \in Themes |-> [s \in {WhiteK.symbol} |-> U_w]]
    /\ pc = [t \in Contexts |-> "idle"]
    /\ frame = [t \in Contexts |-> IdleFrame]
    /\ outcome = NoOutcome
    /\ populated = Themes
    /\ runs = [css \in Themes |-> 1]
    /\ ColorIdle /\ ScanIdle

BoardCall(a) ==
    /\ call' = Some(a)
    /\ doc' = Some(board(CacheOf(SVG_PIECES, "std"), a))
    /\ UNCHANGED <<colorVars, scanVars, themeVars>>

\* One call of board() with arguments of the caller's choice; a single arrow
\* of every square is tried on the plain board, the two-arrow list with
\* every background.
Render ==
    /\ call = <<>>
    /\ \E rows \in 2..MaxRows, cols \in 2..MaxCols, orientation \in BOOLEAN, flipped \in BOOLEAN,
          coordinates \in BOOLEAN, borders \in BOOLEAN, width \in Sizes, height \in Sizes,
          colors \in ColorSchemes, bg \in Backgrounds :
           \E marks \in {NoMarks, Marked(rows)},
              arrows \in IF IsNone(bg[1]) THEN ArrowLists(rows, cols) ELSE {<<>>, TwoArrows} :
               BoardCall([rows |-> rows, cols |-> cols, pieces |-> PiecesOn(rows, cols),
                          orientation |-> orientation, flipped |-> flipped,
                          check |-> marks.check, lastmove |-> marks.lastmove,
                          squares |-> marks.squares,
                          arrows |-> arrows, width |-> width, height |-> height, colors |-> colors,
                          coordinates |-> coordinates, borders |-> borders,
                          background_image |-> bg[1], bgfile |-> bg[2]])

BoardNext == Render

SpecBoard == BoardInit /\ [][BoardNext]_vars

Returned == doc # <<>> /\ Val(doc).raised = ""

SquareClasses == {"square light", "square dark", "square light lastmove", "square dark lastmove"}

IsSquareRect(e) == e.tag = "rect" /\ e.cls \in SquareClasses
IsArrowEl(e) == e.tag \in {"circle", "line", "polygon"}

\* Opening or parsing the background file fails.
ReadFails(a) ==
    /\ ~IsNone(a.background_image)
    /\ \/ ~a.bgfile.exists
       \/ EndsWith(LowerAll(Val(a.background_image)), <<".","s","v","g">>) /\ ~a.bgfile.parses

\* C1: when the background image cannot be read or parsed, render_squares
\* stays true and the document holds rows * cols square rectangles.
C1_FallbackToSquares ==
    (Returned /\ ReadFails(Val(call))) =>
        /\ Val(doc).render_squares
        /\ Cardinality({i \in 1..Len(Val(doc).children) : IsSquareRect(Val(doc).children[i])})
              = Val(call).rows * Val(call).cols

\* C3: the document always has a viewBox; it has a width only if the caller
\* passed width and a height only if the caller passed height.
C3_SizeOnlyOnRequest ==
    Returned =>
        /\ ~IsNone(Val(doc).viewBox)
        /\ ~IsNone(Val(doc).width) => ~IsNone(Val(call).width)
        /\ ~IsNone(Val(doc).height) => ~IsNone(Val(call).height)

\* Position of an element's kind in the documented order.
Layer(e) ==
    CASE e.tag = "style" -> 0
      [] e.tag = "defs" -> 1
      [] e.tag \in {"g", "image"} -> 2
      [] IsSquareRect(e) -> 2
      [] e.tag = "use" /\ e.cls = "xx" -> 2
      [] e.tag = "text" -> 3
      [] e.tag = "rect" /\ e.cls = "check" -> 4
      [] e.tag = "use" /\ e.cls = "piece" -> 4
      [] OTHER -> 5

\* C8: the children come in the order style, defs, background and board,
\* coordinate labels, pieces (a check halo right before its piece), arrows.
C8_ChildOrder ==
    Returned =>
        /\ \A i \in 1..(Len(Val(doc).children) - 1) :
              Layer(Val(doc).children[i]) <= Layer(Val(doc).children[i + 1])
        /\ \A i \in 1..Len(Val(doc).children) :
              (Val(doc).children[i].tag = "rect" /\ Val(doc).children[i].cls = "check") =>
                  /\ i < Len(Val(doc).children)
                  /\ Val(doc).children[i + 1].tag = "use"
                  /\ Val(doc).children[i + 1].cls = "piece"

\* The drawn element that starts at an arrow's tail anchor.
TailEls(d) == SelectSeq(d.children, LAMBDA e : e.tag \in {"circle", "line"})

\* C9: the anchor drawn for the tail square s of an arrow equals the anchor
\* of mirror(s) = (cols - 1 - file, rows - 1 - rank) under the opposite
\* orientation, all other settings being the same.
C9_AnchorSymmetry ==
    (Returned /\ Len(Val(call).arrows) = 1) =>
        /\ Len(TailEls(Val(doc))) = 1
        /\ TailEls(Val(doc))[1].x =
              ArrowX2(Val(call).cols - 1 - square_file(Val(call).arrows[1].tail), Val(call).cols,
                      (~Val(call).orientation) # Val(call).flipped,
                      Val(call).coordinates, Val(call).borders)
        /\ TailEls(Val(doc))[1].y =
              ArrowY2(Val(call).rows - 1 - square_rank(Val(call).arrows[1].tail), Val(call).rows,
                      (~Val(call).orientation) # Val(call).flipped,
                      Val(call).coordinates, Val(call).borders)

\* An arrow from c1 was drawn on a 2 x 3 board seen from the other side, with
\* coordinates and borders on: c1 is neither on a mirror axis nor its own mirror.
C9_Witness ==
    /\ Returned /\ Len(Val(call).arrows) = 1
    /\ Val(call).arrows[1].tail = Sq(3, 1) /\ Val(call).arrows[1].head = Sq(1, 1)
    /\ Val(call).rows = 2 /\ Val(call).cols = 3
    /\ ~Val(call).orientation /\ ~Val(call).flipped
    /\ Val(call).coordinates /\ Val(call).borders
    /\ TailEls(Val(doc))[1].tag = "line"
    /\ TailEls(Val(doc))[1].x = 2 * 17 + SQUARE_SIZE
    /\ TailEls(Val(doc))[1].y = 2 * 17 + SQUARE_SIZE

\* The palette entry an arrow is drawn with when the scheme does not override it.
DrawnByDefault(e) ==
    /\ e.info.stroke = _color(DEFAULT_COLORS[ArrowSlot(e.info.slot)]).color
    /\ e.info.opacity = _color(DEFAULT_COLORS[ArrowSlot(e.info.slot)]).opacity

\* C10: a call with arrows completes whether or not a colour scheme is
\* given; without a scheme every arrow is drawn with the default palette's
\* literal and opacity of its slot, and an unknown slot gets opacity 1.0.
C10_ArrowColourResolved ==
    (doc # <<>> /\ Val(call).arrows # <<>>) =>
        /\ Val(doc).raised = ""
        /\ \A i \in 1..Len(Val(doc).children) :
              IsArrowEl(Val(doc).children[i]) =>
                  IF ArrowSlot(Val(doc).children[i].info.slot) \notin DOMAIN DEFAULT_COLORS
                  THEN Val(doc).children[i].info.opacity = One
                  ELSE IsNone(Val(call).colors) => DrawnByDefault(Val(doc).children[i])

\* The square rectangles of a document, in the order the grid loop drew them.
SquareRects(d) == SelectSeq(d.children, IsSquareRect)

\* The references drawn for one piece.
PieceUses(d, piece) ==
    SelectSeq(d.children,
              LAMBDA e : e.tag = "use" /\ e.cls = "piece" /\ e.info = <<piece.color, piece.symbol>>)

\* The centre of the cell an element is drawn in, in half pixels.
CentreX2(e) == 2 * e.x + SQUARE_SIZE
CentreY2(e) == 2 * e.y + SQUARE_SIZE

\* The tail anchor of the one arrow drawn is the centre of the square
\* rectangle of the grid cell that shows the tail square and, when that
\* square is occupied, of the piece reference drawn in that cell.
AnchorAtCellCentre ==
    LET a    == Val(call)
        d    == Val(doc)
        o    == a.orientation # a.flipped
        cell == GridCell(a.rows, a.arrows[1].tail)
        y_index == display_row(a.rows, cell[1], o)
        x_index == display_col(a.cols, cell[2], o)
        tail == TailEls(d)[1]
    IN  /\ d.render_squares =>
             /\ Len(SquareRects(d)) = a.rows * a.cols
             /\ CentreX2(SquareRects(d)[y_index * a.cols + x_index + 1]) = tail.x
             /\ CentreY2(SquareRects(d)[y_index * a.cols + x_index + 1]) = tail.y
        /\ cell \in DOMAIN a.pieces =>
             /\ Len(PieceUses(d, a.pieces[cell])) = 1
             /\ CentreX2(PieceUses(d, a.pieces[cell])[1]) = tail.x
             /\ CentreY2(PieceUses(d, a.pieces[cell])[1]) = tail.y

\* C11: for every square s, orientation, flip, coordinates flag and borders
\* flag, the anchor drawn for an arrow from s is the centre of the cell in
\* which the square rectangle of s and the piece occupying s are drawn.
C11_AnchorIsCellCentre ==
    (Returned /\ Len(Val(call).arrows) = 1) => AnchorAtCellCentre

\* With borders off the anchor is the centre of the cell: the border widths
\* are the only terms the arrow's origin has and the cell's origin lacks.
AnchorIsCellCentre_NoBorders ==
    (Returned /\ Len(Val(call).arrows) = 1 /\ ~Val(call).borders) => AnchorAtCellCentre

====
